---- MODULE Spec2Model ----
(***************************************************************************)
(* A model of the python-launcher library (src/src/lib.rs): version        *)
(* strings and their parsing, ExactVersion ordering and matching, the      *)
(* candidate index built from the PATH directories, and the selector; and  *)
(* of the launcher binary (src/src/main.rs), from its command line to the  *)
(* execv of the chosen executable.                                         *)
(*                                                                         *)
(* A string is a sequence of one-character strings.  A Result is a record  *)
(* tagged "Ok" or "Err"; a call that has not returned is Pending and any    *)
(* other return value v is Returned(v).                                    *)
(***************************************************************************)
EXTENDS Integers, Sequences, FiniteSets

VARIABLES
    version_string,     \* the &str given to the two from_str
    requested_result,   \* Result<RequestedVersion> of RequestedVersion::from_str
    exact_result,       \* Result<ExactVersion> of ExactVersion::from_str
    display_result,     \* the text Display writes for the parsed ExactVersion
    path,               \* the &Path given to ExactVersion::from_path
    path_result,        \* Result<ExactVersion> of ExactVersion::from_path
    va, vb, vc,         \* three ExactVersion values
    cmp_result,         \* their pairwise Ord::cmp
    requested,          \* a RequestedVersion
    supports_result,    \* va.supports(requested)
    directories,        \* the file system behind PATH, in PATH order
    paths,              \* the ordered sequence of paths given to the index builder
    executables,        \* HashMap<ExactVersion, PathBuf>
    found,              \* Option<PathBuf> the selector returns
    env_args,           \* main: env::args(), the path of the launcher first
    environment,        \* main: the environment variables that are set
    args,               \* main: the arguments handed on to the executable
    requested_version,  \* main: the RequestedVersion
    found_versions,     \* main: HashMap<Version, PathBuf> the scan fills
    scanned,            \* main: how many entries of PATH the scan has done
    chosen_path,        \* main: the executable choose_executable returns
    argv,               \* run: the argument vector given to execv
    pc                  \* main: the statement that is next

vars == <<version_string, requested_result, exact_result, display_result,
          path, path_result, va, vb, vc, cmp_result, requested,
          supports_result, directories, paths, executables, found,
          env_args, environment, args, requested_version, found_versions,
          scanned, chosen_path, argv, pc>>

strVars == <<version_string, requested_result, exact_result, display_result>>
pathVars == <<path, path_result>>
versionVars == <<va, vb, vc, cmp_result, supports_result>>
indexVars == <<directories, paths, executables, found>>
mainVars == <<env_args, environment, args, requested_version,
              found_versions, scanned, chosen_path, argv, pc>>

----------------------------------------------------------------------------
(* Bounds of the model. *)

MaxStrLen == 5      \* longest version string over StrChars
MaxDigits == 5      \* longest all-digit component over OverflowDigits
MaxSuffixLen == 3   \* longest suffix after "python" in an enumerated file name
MaxPaths == 4       \* longest sequence of paths given to the index builder
MaxEntries == 2     \* most entries of one PATH directory

----------------------------------------------------------------------------
(* Values. *)

Pending == [tag |-> "Pending"]
Returned(v) == [tag |-> "Returned", value |-> v]
Ok(v) == [tag |-> "Ok", value |-> v]
Err(e) == [tag |-> "Err", error |-> e]
None == [tag |-> "None"]
Some(v) == [tag |-> "Some", value |-> v]

\* lib.rs:36-53, the variants the library's functions return.
ParseVersionComponentError(parse_error, string) ==
    [kind |-> "ParseVersionComponentError", parse_error |-> parse_error,
     string |-> string]
DotMissing == [kind |-> "DotMissing"]
FileNameMissing == [kind |-> "FileNameMissing"]
FileNameToStrError == [kind |-> "FileNameToStrError"]
PathFileNameError == [kind |-> "PathFileNameError"]

\* ComponentSize = u16: the greatest value a component holds.
ComponentSizeMax == 65535

Any == [tag |-> "Any"]
MajorOnly(major) == [tag |-> "MajorOnly", major |-> major]
Exact(major, minor) == [tag |-> "Exact", major |-> major, minor |-> minor]

ExactVersion(major, minor) == [major |-> major, minor |-> minor]

----------------------------------------------------------------------------
(* Strings. *)

DigitChars == {"0", "1", "2", "3", "4", "5", "6", "7", "8", "9"}

DigitValue(c) ==
    CASE c = "0" -> 0 [] c = "1" -> 1 [] c = "2" -> 2 [] c = "3" -> 3
      [] c = "4" -> 4 [] c = "5" -> 5 [] c = "6" -> 6 [] c = "7" -> 7
      [] c = "8" -> 8 [] c = "9" -> 9

DigitChar(d) ==
    CASE d = 0 -> "0" [] d = 1 -> "1" [] d = 2 -> "2" [] d = 3 -> "3"
      [] d = 4 -> "4" [] d = 5 -> "5" [] d = 6 -> "6" [] d = 7 -> "7"
      [] d = 8 -> "8" [] d = 9 -> "9"

\* The number of bytes of a character's UTF-8 encoding: str::len counts bytes.
Utf8Len(c) == IF c = "é" THEN 2 ELSE 1

RECURSIVE StrLen(_)
StrLen(s) == IF s = <<>> THEN 0 ELSE Utf8Len(Head(s)) + StrLen(Tail(s))

\* str::contains(char)
Contains(s, c) == \E i \in 1..Len(s) : s[i] = c

\* str::find(char): the position of the first occurrence, 0 for None.
Find(s, c) ==
    IF Contains(s, c)
    THEN CHOOSE i \in 1..Len(s) : s[i] = c /\ \A j \in 1..(i - 1) : s[j] # c
    ELSE 0

\* str::starts_with
StartsWith(s, prefix) ==
    Len(s) >= Len(prefix) /\ SubSeq(s, 1, Len(prefix)) = prefix

\* The loop of from_str_radix over the digits: an invalid digit is reported
\* first, then the overflow of the multiplication, then of the addition.
RECURSIVE ParseDigits(_, _)
ParseDigits(digits, result) ==
    IF digits = <<>> THEN Ok(result)
    ELSE LET c == Head(digits) IN
         IF c \notin DigitChars THEN Err("InvalidDigit")
         ELSE IF result * 10 > ComponentSizeMax THEN Err("PosOverflow")
         ELSE IF result * 10 + DigitValue(c) > ComponentSizeMax
              THEN Err("PosOverflow")
         ELSE ParseDigits(Tail(digits), result * 10 + DigitValue(c))

\* A faulty ParseComponent: a component wraps around instead of failing.
RECURSIVE ParseDigitsWrapping(_, _)
ParseDigitsWrapping(digits, result) ==
    IF digits = <<>> THEN Ok(result)
    ELSE LET c == Head(digits) IN
         IF c \notin DigitChars THEN Err("InvalidDigit")
         ELSE ParseDigitsWrapping(Tail(digits),
                  (result * 10 + DigitValue(c)) % (ComponentSizeMax + 1))

ParseComponentWrapping(s) ==
    IF s = <<>> THEN Err("Empty")
    ELSE IF Head(s) \in {"+", "-"} /\ Len(s) = 1 THEN Err("InvalidDigit")
    ELSE IF Head(s) = "+" THEN ParseDigitsWrapping(Tail(s), 0)
    ELSE ParseDigitsWrapping(s, 0)

\* str::parse::<ComponentSize>(): u16::from_str.  The empty string is Empty,
\* a lone sign is InvalidDigit, a leading '+' is allowed and a leading '-' is
\* not (the type is unsigned, so '-' is read as a digit and is invalid).
ParseComponent(s) ==
    IF s = <<>> THEN Err("Empty")
    ELSE IF Head(s) \in {"+", "-"} /\ Len(s) = 1 THEN Err("InvalidDigit")
    ELSE IF Head(s) = "+" THEN ParseDigits(Tail(s), 0)
    ELSE ParseDigits(s, 0)

\* Display of a ComponentSize: its decimal digits, no sign, no padding.
RECURSIVE FormatComponent(_)
FormatComponent(n) ==
    IF n < 10 THEN <<DigitChar(n)>>
    ELSE Append(FormatComponent(n \div 10), DigitChar(n % 10))

----------------------------------------------------------------------------
(* ExactVersion and RequestedVersion: parsing and formatting. *)

\* A faulty ExactVersionFromStr: the string is split at its last '.'.
FindLast(s, c) ==
    IF Contains(s, c)
    THEN CHOOSE i \in 1..Len(s) :
             s[i] = c /\ \A j \in (i + 1)..Len(s) : s[j] # c
    ELSE 0

ExactVersionFromStrLastDot(version_str) ==
    LET dot_index == FindLast(version_str, ".") IN
    IF dot_index = 0 THEN Err(DotMissing)
    ELSE LET major_str == SubSeq(version_str, 1, dot_index - 1)
             major == ParseComponent(major_str)
             minor_str == SubSeq(version_str, dot_index + 1, Len(version_str))
             minor == ParseComponent(minor_str)
         IN  IF major.tag = "Err"
             THEN Err(ParseVersionComponentError(major.error, major_str))
             ELSE IF minor.tag = "Err"
             THEN Err(ParseVersionComponentError(minor.error, minor_str))
             ELSE Ok(ExactVersion(major.value, minor.value))

\* impl FromStr for ExactVersion
ExactVersionFromStr(version_str) ==
    LET dot_index == Find(version_str, ".") IN
    IF dot_index = 0 THEN Err(DotMissing)
    ELSE LET major_str == SubSeq(version_str, 1, dot_index - 1)
             major == ParseComponent(major_str)
             minor_str == SubSeq(version_str, dot_index + 1, Len(version_str))
             minor == ParseComponent(minor_str)
         IN  IF major.tag = "Err"
             THEN Err(ParseVersionComponentError(major.error, major_str))
             ELSE IF minor.tag = "Err"
             THEN Err(ParseVersionComponentError(minor.error, minor_str))
             ELSE Ok(ExactVersion(major.value, minor.value))

\* impl FromStr for RequestedVersion
RequestedVersionFromStr(version_str) ==
    IF version_str = <<>> THEN Ok(Any)
    ELSE IF Contains(version_str, ".")
    THEN LET exact_version == ExactVersionFromStr(version_str) IN
         IF exact_version.tag = "Err" THEN exact_version
         ELSE Ok(Exact(exact_version.value.major, exact_version.value.minor))
    ELSE LET number == ParseComponent(version_str) IN
         IF number.tag = "Ok" THEN Ok(MajorOnly(number.value))
         ELSE Err(ParseVersionComponentError(number.error, version_str))

\* A faulty ExactVersionDisplay: the two components change places.
ExactVersionDisplaySwapped(version) ==
    FormatComponent(version.minor) \o <<".">> \o FormatComponent(version.major)

\* impl Display for ExactVersion: "{major}.{minor}"
ExactVersionDisplay(version) ==
    FormatComponent(version.major) \o <<".">> \o FormatComponent(version.minor)

----------------------------------------------------------------------------
(* The inputs of the string specification. *)

StringsOver(chars, lo, hi) == UNION {[1..n -> chars] : n \in lo..hi}

StrChars == {"0", "3", "6", ".", "+", "h"}
OverflowDigits == {"0", "9"}

\* All-digit components up to MaxDigits digits, with the two around u16::MAX.
ComponentStrings ==
    StringsOver(OverflowDigits, 1, MaxDigits)
        \cup {<<"6", "5", "5", "3", "5">>, <<"6", "5", "5", "3", "6">>}

VersionStrings ==
    StringsOver(StrChars, 0, MaxStrLen)
        \cup ComponentStrings
        \cup {major \o <<".">> \o minor :
                  major \in ComponentStrings, minor \in ComponentStrings}

Idle == [tag |-> "Idle"]

StrIdle ==
    /\ version_string = <<>> /\ requested_result = Idle
    /\ exact_result = Idle /\ display_result = Idle
PathIdle == path = Idle /\ path_result = Idle
VersionIdle ==
    /\ va = Idle /\ vb = Idle /\ vc = Idle
    /\ cmp_result = Idle /\ supports_result = Idle
IndexIdle ==
    /\ directories = <<>> /\ paths = <<>>
    /\ executables = Idle /\ found = Idle
MainIdle ==
    /\ env_args = <<>> /\ args = <<>> /\ argv = <<>>
    /\ environment = Idle /\ requested_version = Idle
    /\ found_versions = Idle /\ chosen_path = Idle
    /\ scanned = 0 /\ pc = "idle"

----------------------------------------------------------------------------
(* The string specification: one version string, parsed both ways, and the *)
(* parsed ExactVersion formatted.                                          *)

InitStr ==
    /\ version_string \in VersionStrings
    /\ requested_result = Pending
    /\ exact_result = Pending
    /\ display_result = Pending
    /\ PathIdle /\ VersionIdle /\ IndexIdle /\ requested = Idle
    /\ MainIdle

CallRequestedVersionFromStr ==
    /\ requested_result = Pending
    /\ requested_result' = RequestedVersionFromStr(version_string)
    /\ UNCHANGED <<version_string, exact_result, display_result>>
    /\ UNCHANGED <<pathVars, versionVars, indexVars, requested>>
    /\ UNCHANGED mainVars

CallExactVersionFromStr ==
    /\ exact_result = Pending
    /\ exact_result' = ExactVersionFromStr(version_string)
    /\ UNCHANGED <<version_string, requested_result, display_result>>
    /\ UNCHANGED <<pathVars, versionVars, indexVars, requested>>
    /\ UNCHANGED mainVars

CallExactVersionDisplay ==
    /\ exact_result.tag = "Ok"
    /\ display_result = Pending
    /\ display_result' = Returned(ExactVersionDisplay(exact_result.value))
    /\ UNCHANGED <<version_string, requested_result, exact_result>>
    /\ UNCHANGED <<pathVars, versionVars, indexVars, requested>>
    /\ UNCHANGED mainVars

NextStr ==
    \/ CallRequestedVersionFromStr
    \/ CallExactVersionFromStr
    \/ CallExactVersionDisplay

SpecStr == InitStr /\ [][NextStr]_vars

----------------------------------------------------------------------------
(* What the claims about strings speak of, stated without the parser.      *)

DotCount(s) == Cardinality({i \in 1..Len(s) : s[i] = "."})

FirstDot(s) == CHOOSE i \in 1..Len(s) : s[i] = "." /\ \A j \in 1..(i - 1) : s[j] # "."
BeforeFirstDot(s) == SubSeq(s, 1, FirstDot(s) - 1)
AfterFirstDot(s) == SubSeq(s, FirstDot(s) + 1, Len(s))

IsDigitString(s) == s # <<>> /\ \A i \in 1..Len(s) : s[i] \in DigitChars

\* The number a string of decimal digits denotes, of any magnitude.
RECURSIVE NatValue(_)
NatValue(s) ==
    IF s = <<>> THEN 0
    ELSE 10 * NatValue(SubSeq(s, 1, Len(s) - 1)) + DigitValue(s[Len(s)])

Unsigned(s) == IF s # <<>> /\ Head(s) = "+" THEN Tail(s) ELSE s

\* The text of a ComponentSize: decimal digits after an optional '+', of a
\* value the type holds.
IsComponentText(s) ==
    IsDigitString(Unsigned(s)) /\ NatValue(Unsigned(s)) <= ComponentSizeMax

ComponentValue(s) == NatValue(Unsigned(s))

IsComponentError(result, string) ==
    /\ result.tag = "Err"
    /\ result.error.kind = "ParseVersionComponentError"
    /\ result.error.string = string

\* "major.minor": two runs of decimal digits around a single '.'.
IsMajorMinorText(s) ==
    /\ DotCount(s) = 1
    /\ IsDigitString(BeforeFirstDot(s))
    /\ IsDigitString(AfterFirstDot(s))

NumericPair(s) == <<NatValue(BeforeFirstDot(s)), NatValue(AfterFirstDot(s))>>

\* C4: RequestedVersion::from_str gives Any for the empty string; for a
\* string without '.', MajorOnly(v) when the whole string is the text of an
\* unsigned integer v (a ComponentSize) and otherwise a
\* ParseVersionComponentError carrying the whole string; for a string with
\* '.', split at the first '.', Exact(major, minor) when both parts are such
\* texts and otherwise a ParseVersionComponentError carrying the first
\* offending part.  It never returns DotMissing.
C4_FromStrClassifies ==
    requested_result.tag \in {"Ok", "Err"} =>
        LET s == version_string IN
        /\ requested_result.tag = "Err" => requested_result.error # DotMissing
        /\ IF s = <<>> THEN requested_result = Ok(Any)
           ELSE IF DotCount(s) = 0
           THEN IF IsComponentText(s)
                THEN requested_result = Ok(MajorOnly(ComponentValue(s)))
                ELSE IsComponentError(requested_result, s)
           ELSE LET major_str == BeforeFirstDot(s)
                    minor_str == AfterFirstDot(s)
                IN  IF IsComponentText(major_str) /\ IsComponentText(minor_str)
                    THEN requested_result =
                             Ok(Exact(ComponentValue(major_str),
                                      ComponentValue(minor_str)))
                    ELSE IF ~IsComponentText(major_str)
                    THEN IsComponentError(requested_result, major_str)
                    ELSE IsComponentError(requested_result, minor_str)

\* C4's case: both parts around the first '.' are invalid and the error
\* carries the major part.
C4_Witness ==
    /\ version_string = <<"h", ".", "h", ".">>
    /\ IsComponentError(requested_result, <<"h">>)

\* C5: a string with more than one '.' never parses as an exact version: both
\* from_str fail with ParseVersionComponentError, and when the part before
\* the first '.' is a valid component the error carries everything after the
\* first '.'.
C5_MoreThanOneDotFails ==
    DotCount(version_string) > 1 =>
        \A result \in {exact_result, requested_result} :
            result.tag \in {"Ok", "Err"} =>
                /\ result.tag = "Err"
                /\ result.error.kind = "ParseVersionComponentError"
                /\ IsComponentText(BeforeFirstDot(version_string)) =>
                       result.error.string = AfterFirstDot(version_string)

\* C5's case: "3.6.3" has failed on the minor part "6.3".
C5_Witness ==
    /\ version_string = <<"3", ".", "6", ".", "3">>
    /\ IsComponentError(exact_result, <<"6", ".", "3">>)
    /\ IsComponentError(requested_result, <<"6", ".", "3">>)

\* C6 as stated: every "major.minor" string of non-negative integer
\* components parses, and formatting the parsed version gives back the
\* numeric pair of the string.
C6_RoundTripAnyMagnitude ==
    IsMajorMinorText(version_string) =>
        /\ exact_result.tag \in {"Ok", "Err"} =>
               /\ exact_result.tag = "Ok"
               /\ <<exact_result.value.major, exact_result.value.minor>>
                      = NumericPair(version_string)
        /\ display_result.tag = "Returned" =>
               /\ IsMajorMinorText(display_result.value)
               /\ NumericPair(display_result.value)
                      = NumericPair(version_string)

\* C6, amended: every "major.minor" string of non-negative integer
\* components that are at most 65535 (ComponentSize is u16) parses, and
\* formatting the parsed version gives back the numeric pair of the string.
C6_RoundTripWithinComponentSize ==
    (/\ IsMajorMinorText(version_string)
     /\ NatValue(BeforeFirstDot(version_string)) <= ComponentSizeMax
     /\ NatValue(AfterFirstDot(version_string)) <= ComponentSizeMax) =>
        /\ exact_result.tag \in {"Ok", "Err"} =>
               /\ exact_result.tag = "Ok"
               /\ <<exact_result.value.major, exact_result.value.minor>>
                      = NumericPair(version_string)
        /\ display_result.tag = "Returned" =>
               /\ IsMajorMinorText(display_result.value)
               /\ NumericPair(display_result.value)
                      = NumericPair(version_string)

\* C6's case: "09.65535" was parsed and formatted as "9.65535".
C6_Witness ==
    /\ version_string = <<"0", "9", ".", "6", "5", "5", "3", "5">>
    /\ exact_result = Ok(ExactVersion(9, 65535))
    /\ display_result = Returned(<<"9", ".", "6", "5", "5", "3", "5">>)

----------------------------------------------------------------------------
(* Paths.  A PathBuf is its directory and its final component; the final   *)
(* component is None (a path such as "/" has none) or Some(OsStr), and an  *)
(* OsStr either converts to a str or does not (it is not UTF-8).           *)

Utf8(text) == [to_str |-> Some(text)]
NotUtf8 == [to_str |-> None]
PathBuf(dir, file_name) == [dir |-> dir, file_name |-> file_name]

python == <<"p", "y", "t", "h", "o", "n">>
python3_0 == python \o <<"3", ".", "0">>

\* A faulty AcceptableFileName: the length is not looked at.
AcceptableFileNameAnyLength(file_name) == StartsWith(file_name, python)

\* fn acceptable_file_name
AcceptableFileName(file_name) ==
    StrLen(file_name) >= StrLen(python3_0) /\ StartsWith(file_name, python)

\* ExactVersion::from_path
ExactVersionFromPath(p) ==
    IF p.file_name = None THEN Err(FileNameMissing)
    ELSE LET raw_file_name == p.file_name.value IN
         IF raw_file_name.to_str = None THEN Err(FileNameToStrError)
         ELSE LET file_name == raw_file_name.to_str.value IN
              IF AcceptableFileName(file_name)
              THEN ExactVersionFromStr(
                       SubSeq(file_name, Len(python) + 1, Len(file_name)))
              ELSE Err(PathFileNameError)

----------------------------------------------------------------------------
(* The path specification: one path, given to ExactVersion::from_path.     *)

DirNames == <<"dir1", "dir2">>
Dirs == {DirNames[i] : i \in 1..Len(DirNames)}

NameChars == {"3", "6", ".", "X", "é"}

\* "python" and a suffix, and names that are not of that form.
FileNames ==
    {python \o suffix : suffix \in StringsOver(NameChars, 0, MaxSuffixLen)}
        \cup {<<>>,
              <<"3", ".", "6">>,
              <<"n", "o", "t">> \o python,
              <<"n", "o", "t">> \o python3_0,
              <<"P", "y", "t", "h", "o", "n", "3", ".", "6">>,
              <<"p", "y", "t", "h", "o", "m", "3", ".", "6">>,
              <<"p", "y", "p", "y", "3", ".", "6", ".", "3">>}

FromPathInputs ==
    {PathBuf(dir, file_name) :
         dir \in Dirs,
         file_name \in {None, Some(NotUtf8)}
                           \cup {Some(Utf8(text)) : text \in FileNames}}

InitPath ==
    /\ path \in FromPathInputs
    /\ path_result = Pending
    /\ StrIdle /\ VersionIdle /\ IndexIdle /\ requested = Idle
    /\ MainIdle

CallExactVersionFromPath ==
    /\ path_result = Pending
    /\ path_result' = ExactVersionFromPath(path)
    /\ UNCHANGED <<path, strVars, versionVars, indexVars, requested>>
    /\ UNCHANGED mainVars

NextPath == CallExactVersionFromPath

SpecPath == InitPath /\ [][NextPath]_vars

HasText(p) == p.file_name # None /\ p.file_name.value.to_str # None
TextOf(p) == p.file_name.value.to_str.value
SuffixOf(text) == SubSeq(text, Len(python) + 1, Len(text))

\* C9 as stated: for a path whose final component is text, from_path fails
\* with PathFileNameError exactly when the name has fewer than the 9
\* characters of "python3.0" or does not start with "python", and otherwise
\* returns what ExactVersion::from_str returns for the suffix after "python"
\* (DotMissing when the suffix has no '.'); a path without a final component
\* fails with FileNameMissing and a non-text one with FileNameToStrError.
C9_FromPathByCharacters ==
    path_result.tag \in {"Ok", "Err"} =>
        IF path.file_name = None THEN path_result = Err(FileNameMissing)
        ELSE IF ~HasText(path) THEN path_result = Err(FileNameToStrError)
        ELSE LET text == TextOf(path) IN
             IF Len(text) < Len(python3_0) \/ ~StartsWith(text, python)
             THEN path_result = Err(PathFileNameError)
             ELSE /\ path_result = ExactVersionFromStr(SuffixOf(text))
                  /\ path_result # Err(PathFileNameError)
                  /\ DotCount(SuffixOf(text)) = 0 =>
                         path_result = Err(DotMissing)

\* C9, amended: the length that decides is the number of bytes of the name's
\* UTF-8 encoding, not its number of characters: from_path fails with
\* PathFileNameError exactly when the name has fewer than the 9 bytes of
\* "python3.0" or does not start with "python"; the rest is as stated.
C9_FromPathByBytes ==
    path_result.tag \in {"Ok", "Err"} =>
        IF path.file_name = None THEN path_result = Err(FileNameMissing)
        ELSE IF ~HasText(path) THEN path_result = Err(FileNameToStrError)
        ELSE LET text == TextOf(path) IN
             IF StrLen(text) < StrLen(python3_0) \/ ~StartsWith(text, python)
             THEN path_result = Err(PathFileNameError)
             ELSE /\ path_result = ExactVersionFromStr(SuffixOf(text))
                  /\ path_result # Err(PathFileNameError)
                  /\ DotCount(SuffixOf(text)) = 0 =>
                         path_result = Err(DotMissing)

\* C9's case: a name of 8 characters and 9 bytes passes the predicate and
\* fails in from_str, as the suffix has no '.'.
C9_Witness ==
    /\ HasText(path)
    /\ TextOf(path) = python \o <<"3", "é">>
    /\ path_result = Err(DotMissing)

----------------------------------------------------------------------------
(* ExactVersion: ordering and matching. *)

\* Ord for ComponentSize
ComponentCmp(x, y) == IF x < y THEN "Less" ELSE IF x = y THEN "Equal" ELSE "Greater"

\* The comparison of two texts, character by character.
RECURSIVE TextCmp(_, _)
TextCmp(s, t) ==
    IF s = <<>> THEN (IF t = <<>> THEN "Equal" ELSE "Less")
    ELSE IF t = <<>> THEN "Greater"
    ELSE IF Head(s) # Head(t)
         THEN ComponentCmp(DigitValue(Head(s)), DigitValue(Head(t)))
    ELSE TextCmp(Tail(s), Tail(t))

\* A faulty ExactVersionCmp: the minor components are compared as text.
ExactVersionCmpText(a, b) ==
    IF ComponentCmp(a.major, b.major) # "Equal"
    THEN ComponentCmp(a.major, b.major)
    ELSE TextCmp(FormatComponent(a.minor), FormatComponent(b.minor))

\* #[derive(Ord, PartialOrd)] for ExactVersion: the fields are compared in
\* the order of their declaration, major and then minor.
ExactVersionCmp(a, b) ==
    IF ComponentCmp(a.major, b.major) # "Equal"
    THEN ComponentCmp(a.major, b.major)
    ELSE ComponentCmp(a.minor, b.minor)

\* A faulty Supports: an exact request is matched on the major alone.
SupportsMajorAlone(version, request) ==
    CASE request.tag = "Any" -> TRUE
      [] request.tag = "MajorOnly" -> version.major = request.major
      [] request.tag = "Exact" -> version.major = request.major

\* ExactVersion::supports
Supports(version, request) ==
    CASE request.tag = "Any" -> TRUE
      [] request.tag = "MajorOnly" -> version.major = request.major
      [] request.tag = "Exact" ->
             version.major = request.major /\ version.minor = request.minor

----------------------------------------------------------------------------
(* The version specification: three versions compared with one another,    *)
(* and the first matched against a request.                                *)

VersionMajors == {2, 3}
VersionMinors == {0, 6, 10}
Versions == {ExactVersion(major, minor) :
                 major \in VersionMajors, minor \in VersionMinors}

RequestMajors == VersionMajors \cup {42}
RequestMinors == VersionMinors \cup {7}
Requests ==
    {Any} \cup {MajorOnly(major) : major \in RequestMajors}
          \cup {Exact(major, minor) :
                    major \in RequestMajors, minor \in RequestMinors}

InitVersion ==
    /\ va \in Versions /\ vb \in Versions /\ vc \in Versions
    /\ requested \in Requests
    /\ cmp_result = Pending
    /\ supports_result = Pending
    /\ StrIdle /\ PathIdle /\ IndexIdle
    /\ MainIdle

CallCmp ==
    /\ cmp_result = Pending
    /\ cmp_result' = Returned([aa |-> ExactVersionCmp(va, va),
                               ab |-> ExactVersionCmp(va, vb),
                               ba |-> ExactVersionCmp(vb, va),
                               bc |-> ExactVersionCmp(vb, vc),
                               ac |-> ExactVersionCmp(va, vc)])
    /\ UNCHANGED <<va, vb, vc, supports_result, requested>>
    /\ UNCHANGED <<strVars, pathVars, indexVars>>
    /\ UNCHANGED mainVars

CallSupports ==
    /\ supports_result = Pending
    /\ supports_result' = Returned(Supports(va, requested))
    /\ UNCHANGED <<va, vb, vc, cmp_result, requested>>
    /\ UNCHANGED <<strVars, pathVars, indexVars>>
    /\ UNCHANGED mainVars

NextVersion == CallCmp \/ CallSupports

SpecVersion == InitVersion /\ [][NextVersion]_vars

\* a < b in the lexicographic order of the integer pairs (major, minor).
PairLess(a, b) ==
    a.major < b.major \/ (a.major = b.major /\ a.minor < b.minor)

\* C7: the ordering of ExactVersion is a strict total order that agrees with
\* the lexicographic order of the pairs (major, minor): a < b iff
\* a.major < b.major, or a.major = b.major and a.minor < b.minor; it is
\* irreflexive, transitive and total, and the minor components are compared
\* as numbers, so 3.6 < 3.10.
C7_OrderIsLexicographic ==
    cmp_result.tag = "Returned" =>
        LET cmp == cmp_result.value IN
        /\ cmp.ab = "Less" <=> PairLess(va, vb)
        /\ cmp.ab = "Greater" <=> PairLess(vb, va)
        /\ cmp.ab = "Equal" <=> va = vb
        /\ cmp.aa = "Equal"
        /\ cmp.ab = "Less" <=> cmp.ba = "Greater"
        /\ cmp.ab = "Equal" <=> cmp.ba = "Equal"
        /\ (cmp.ab = "Less" /\ cmp.bc = "Less") => cmp.ac = "Less"
        /\ (va = ExactVersion(3, 6) /\ vb = ExactVersion(3, 10)) =>
               cmp.ab = "Less"

\* C7's case: 2.10 < 3.6 and 3.6 < 3.10, and so 2.10 < 3.10.
C7_Witness ==
    /\ va = ExactVersion(2, 10)
    /\ vb = ExactVersion(3, 6)
    /\ vc = ExactVersion(3, 10)
    /\ cmp_result.tag = "Returned"
    /\ cmp_result.value.ab = "Less"
    /\ cmp_result.value.bc = "Less"
    /\ cmp_result.value.ac = "Less"

\* C8: V.supports(R) is true for R = Any, for R = MajorOnly(m) iff
\* V.major = m, and for R = Exact(m, n) iff V.major = m and V.minor = n.
C8_Supports ==
    supports_result.tag = "Returned" =>
        /\ requested = Any => supports_result.value = TRUE
        /\ \A m \in RequestMajors :
               requested = MajorOnly(m) =>
                   (supports_result.value = TRUE <=> va.major = m)
        /\ \A m \in RequestMajors, n \in RequestMinors :
               requested = Exact(m, n) =>
                   (supports_result.value = TRUE
                        <=> (va.major = m /\ va.minor = n))

\* C8's case: 3.6 does not support Exact(3, 7), of the same major.
C8_Witness ==
    /\ va = ExactVersion(3, 6)
    /\ requested = Exact(3, 7)
    /\ supports_result = Returned(FALSE)

----------------------------------------------------------------------------
(* The candidate index and the selector.  A HashMap is a function from its *)
(* set of keys; the order in which it is iterated is not determined.       *)

EmptyMap == [key \in {} |-> key]

\* A faulty EntryOrInsert: HashMap::insert, which replaces the value.
Insert(map, key, value) ==
    [k \in DOMAIN map \cup {key} |-> IF k = key THEN value ELSE map[k]]

\* HashMap::entry(key).or_insert(value)
EntryOrInsert(map, key, value) ==
    IF key \in DOMAIN map THEN map
    ELSE [k \in DOMAIN map \cup {key} |-> IF k = key THEN value ELSE map[k]]

\* The for_each of all_executables_in_paths over what is left of the paths.
RECURSIVE ForEachPath(_, _)
ForEachPath(map, rest) ==
    IF rest = <<>> THEN map
    ELSE LET version == ExactVersionFromPath(Head(rest)) IN
         ForEachPath(IF version.tag = "Ok"
                     THEN EntryOrInsert(map, version.value, Head(rest))
                     ELSE map,
                     Tail(rest))

\* A faulty for_each: the first path that from_path rejects ends the loop.
RECURSIVE ForEachPathUntilError(_, _)
ForEachPathUntilError(map, rest) ==
    IF rest = <<>> THEN map
    ELSE LET version == ExactVersionFromPath(Head(rest)) IN
         IF version.tag = "Ok"
         THEN ForEachPathUntilError(
                  EntryOrInsert(map, version.value, Head(rest)), Tail(rest))
         ELSE map

\* A faulty AllExecutablesInPaths: it stops at the first rejected path.
AllExecutablesInPathsUntilError(path_seq) ==
    ForEachPathUntilError(EmptyMap, path_seq)

\* fn all_executables_in_paths
AllExecutablesInPaths(path_seq) == ForEachPath(EmptyMap, path_seq)

\* The orders in which a map of these keys may be iterated.
IterationOrders(keys) ==
    {order \in [1..Cardinality(keys) -> keys] :
         \A i, j \in 1..Cardinality(keys) : order[i] = order[j] => i = j}

\* Ord for the (key, value) pairs of a map: the keys of a map differ, so
\* the comparison of the keys decides.
PairCmp(map, x, y) == ExactVersionCmp(x, y)

\* Iterator::max over the keys in iteration order: the last greatest one.
RECURSIVE MaxFrom(_, _, _)
MaxFrom(map, best, rest) ==
    IF rest = <<>> THEN best
    ELSE MaxFrom(map,
                 IF PairCmp(map, best, Head(rest)) = "Greater"
                 THEN best ELSE Head(rest),
                 Tail(rest))

IterMax(map, keys) ==
    IF keys = <<>> THEN None ELSE Some(MaxFrom(map, Head(keys), Tail(keys)))

\* Iterator::filter with the closure |pair| pair.0.supports(requested)
RECURSIVE FilterSupports(_, _)
FilterSupports(keys, request) ==
    IF keys = <<>> THEN <<>>
    ELSE IF Supports(Head(keys), request)
         THEN <<Head(keys)>> \o FilterSupports(Tail(keys), request)
         ELSE FilterSupports(Tail(keys), request)

\* Iterator::find with the same closure: the first key that supports.
IterFind(keys, request) ==
    IF FilterSupports(keys, request) = <<>> THEN None
    ELSE Some(Head(FilterSupports(keys, request)))

\* Option::map(|pair| pair.1.clone())
PathOf(map, key) == IF key = None THEN None ELSE Some(map[key.value])

\* A faulty FindExecutableInHashmap: a major-only request takes the
\* first entry that supports it.
FindExecutableInHashmapFirst(request, map, order) ==
    PathOf(map,
           CASE request.tag = "Any" -> IterMax(map, order)
             [] request.tag = "MajorOnly" -> IterFind(order, request)
             [] request.tag = "Exact" -> IterFind(order, request))

\* A faulty FindExecutableInHashmap: an exact request falls back on the
\* newest version of its major.
FindExecutableInHashmapFallback(request, map, order) ==
    PathOf(map,
           CASE request.tag = "Any" -> IterMax(map, order)
             [] request.tag = "MajorOnly" ->
                    IterMax(map, FilterSupports(order, request))
             [] request.tag = "Exact" ->
                    IF IterFind(order, request) # None
                    THEN IterFind(order, request)
                    ELSE IterMax(map, FilterSupports(order,
                                          MajorOnly(request.major))))

\* fn find_executable_in_hashmap, the map iterated in the given order.
FindExecutableInHashmap(request, map, order) ==
    PathOf(map,
           CASE request.tag = "Any" -> IterMax(map, order)
             [] request.tag = "MajorOnly" ->
                    IterMax(map, FilterSupports(order, request))
             [] request.tag = "Exact" -> IterFind(order, request))

----------------------------------------------------------------------------
(* The index specification: a sequence of paths is indexed, and the index  *)
(* is searched for a request.                                              *)

python2_7 == python \o <<"2", ".", "7">>
python3_6 == python \o <<"3", ".", "6">>
python3_7 == python \o <<"3", ".", "7">>
python3 == python \o <<"3">>

IndexPaths ==
    {PathBuf(dir, Some(Utf8(name))) :
         dir \in Dirs, name \in {python2_7, python3_6, python3_7}}
        \cup {PathBuf(DirNames[1], Some(Utf8(python3)))}

IndexRequests ==
    {Any, MajorOnly(2), MajorOnly(3), MajorOnly(42), Exact(3, 6), Exact(3, 8)}

InitIndex ==
    /\ paths \in StringsOver(IndexPaths, 0, MaxPaths)
    /\ requested = Pending
    /\ executables = Pending
    /\ found = Pending
    /\ directories = <<>>
    /\ StrIdle /\ PathIdle /\ VersionIdle
    /\ MainIdle

CallAllExecutablesInPaths ==
    /\ executables = Pending
    /\ executables' = Returned(AllExecutablesInPaths(paths))
    /\ UNCHANGED <<directories, paths, found, requested>>
    /\ UNCHANGED <<strVars, pathVars, versionVars>>
    /\ UNCHANGED mainVars

CallFindExecutableInHashmap ==
    /\ executables.tag = "Returned"
    /\ found = Pending
    /\ \E request \in IndexRequests,
          order \in IterationOrders(DOMAIN executables.value) :
           /\ requested' = request
           /\ found' = Returned(FindExecutableInHashmap(
                                    request, executables.value, order))
    /\ UNCHANGED <<directories, paths, executables>>
    /\ UNCHANGED <<strVars, pathVars, versionVars>>
    /\ UNCHANGED mainVars

NextIndex == CallAllExecutablesInPaths \/ CallFindExecutableInHashmap

SpecIndex == InitIndex /\ [][NextIndex]_vars

\* What from_path makes of each path of the sequence.
FromPathOfEach(path_seq) ==
    [i \in 1..Len(path_seq) |-> ExactVersionFromPath(path_seq[i])]

\* C1: the index built from an ordered sequence of paths holds one path per
\* (major, minor) version, and the path stored for a version is the first
\* path of the sequence that carries that version; a later path of the same
\* version never replaces it.
C1_FirstSeenWins ==
    executables.tag = "Returned" =>
        LET map == executables.value
            carried == FromPathOfEach(paths)
        IN  /\ DOMAIN map =
                   {carried[i].value :
                        i \in {j \in 1..Len(paths) : carried[j].tag = "Ok"}}
            /\ \A version \in DOMAIN map :
                   \E i \in 1..Len(paths) :
                       /\ carried[i] = Ok(version)
                       /\ map[version] = paths[i]
                       /\ \A j \in 1..(i - 1) : carried[j] # Ok(version)

\* C1's case: 2.7, 3.6 of dir1, 3.6 of dir2 and 3.7 give three entries, and
\* the entry of 3.6 is the path in dir1.
C1_Witness ==
    /\ paths = <<PathBuf("dir1", Some(Utf8(python2_7))),
                 PathBuf("dir1", Some(Utf8(python3_6))),
                 PathBuf("dir2", Some(Utf8(python3_6))),
                 PathBuf("dir2", Some(Utf8(python3_7)))>>
    /\ executables.tag = "Returned"
    /\ Cardinality(DOMAIN executables.value) = 3
    /\ executables.value[ExactVersion(3, 6)]
           = PathBuf("dir1", Some(Utf8(python3_6)))

\* The entries of the index that a broad request admits.
Admitted(map, request) ==
    IF request = Any THEN DOMAIN map
    ELSE {version \in DOMAIN map : version.major = request.major}

\* C2: for Any and MajorOnly(m), find_executable_in_hashmap returns the path
\* of the greatest version, in the (major, minor) order, among the entries
\* the request admits (all of them for Any, those of major m for
\* MajorOnly(m)), whatever the order of iteration, and returns no match
\* exactly when no entry is admitted.
C2_BroadRequestTakesGreatest ==
    (/\ found.tag = "Returned"
     /\ requested.tag \in {"Any", "MajorOnly"}) =>
        LET map == executables.value
            admitted == Admitted(map, requested)
        IN  /\ found.value = None <=> admitted = {}
            /\ admitted # {} =>
                   \E greatest \in admitted :
                       /\ \A other \in admitted :
                              other = greatest \/ PairLess(other, greatest)
                       /\ found.value = Some(map[greatest])

\* C2's case: of 2.7, 3.7 and 3.6, MajorOnly(3) takes 3.7.
C2_Witness ==
    /\ executables.tag = "Returned"
    /\ DOMAIN executables.value
           = {ExactVersion(2, 7), ExactVersion(3, 6), ExactVersion(3, 7)}
    /\ requested = MajorOnly(3)
    /\ found = Returned(Some(executables.value[ExactVersion(3, 7)]))

\* C3: for Exact(m, n), find_executable_in_hashmap returns the path stored
\* under the version (m, n) when the index has that key and no match
\* otherwise: never the path of another version, of the same major or not.
C3_ExactIsALookup ==
    (/\ found.tag = "Returned"
     /\ requested.tag = "Exact") =>
        LET map == executables.value
            version == ExactVersion(requested.major, requested.minor)
        IN  IF version \in DOMAIN map
            THEN found.value = Some(map[version])
            ELSE found.value = None

\* C3's case: 3.6 and 3.7 are indexed, and Exact(3, 8) finds nothing.
C3_Witness ==
    /\ executables.tag = "Returned"
    /\ DOMAIN executables.value = {ExactVersion(3, 6), ExactVersion(3, 7)}
    /\ requested = Exact(3, 8)
    /\ found = Returned(None)

----------------------------------------------------------------------------
(* The file system behind PATH.  A directory of PATH has a name and what   *)
(* read_dir gives for it: an error, or its entries in the order in which   *)
(* they are listed, each an error or a DirEntry with a name and the type   *)
(* of the file the name resolves to.  The sequence of the directories is   *)
(* what env_path returns: the order of PATH.                               *)

FileTypes == {"file", "dir", "symlink_to_file"}

\* The paths of the readable entries of one directory, in listing order.
RECURSIVE EntryPaths(_, _)
EntryPaths(dir, entries) ==
    IF entries = <<>> THEN <<>>
    ELSE IF Head(entries).tag = "Ok"
         THEN <<PathBuf(dir, Some(Utf8(Head(entries).value.file_name)))>>
                  \o EntryPaths(dir, Tail(entries))
         ELSE EntryPaths(dir, Tail(entries))

\* fn flatten_directories: the directories that cannot be read are left out,
\* and so are the entries that cannot be read; nothing else is.
RECURSIVE FlattenDirectories(_)
FlattenDirectories(dirs) ==
    IF dirs = <<>> THEN <<>>
    ELSE IF Head(dirs).read_dir.tag = "Ok"
         THEN EntryPaths(Head(dirs).name, Head(dirs).read_dir.value)
                  \o FlattenDirectories(Tail(dirs))
         ELSE FlattenDirectories(Tail(dirs))

\* pub fn all_executables
AllExecutables(dirs) == AllExecutablesInPaths(FlattenDirectories(dirs))

\* Path::is_file: the path names a regular file, or a symlink to one.
IsFile(dirs, p) ==
    \E i \in 1..Len(dirs) :
        /\ dirs[i].name = p.dir
        /\ dirs[i].read_dir.tag = "Ok"
        /\ \E k \in 1..Len(dirs[i].read_dir.value) :
               LET entry == dirs[i].read_dir.value[k] IN
               /\ entry.tag = "Ok"
               /\ p.file_name = Some(Utf8(entry.value.file_name))
               /\ entry.value.file_type \in {"file", "symlink_to_file"}

----------------------------------------------------------------------------
(* The environment specification: all_executables and find_executable over *)
(* the directories of PATH.                                                *)

DirEntries ==
    {Ok([file_name |-> name, file_type |-> type]) :
         name \in {python3_6, python3_7}, type \in FileTypes}
        \cup {Err("io")}

\* The listings of a directory: no two entries have the same name.
Listings ==
    {entries \in StringsOver(DirEntries, 0, MaxEntries) :
         \A i, j \in 1..Len(entries) :
             (/\ i # j
              /\ entries[i].tag = "Ok"
              /\ entries[j].tag = "Ok") =>
                 entries[i].value.file_name # entries[j].value.file_name}

ReadDirs == {Err("io")} \cup {Ok(entries) : entries \in Listings}

InitEnv ==
    /\ \E n \in 0..Len(DirNames) :
           \E read_dirs \in [1..n -> ReadDirs] :
               directories = [i \in 1..n |-> [name |-> DirNames[i],
                                              read_dir |-> read_dirs[i]]]
    /\ paths = <<>>
    /\ executables = Pending
    /\ found = Pending
    /\ requested = Pending
    /\ StrIdle /\ PathIdle /\ VersionIdle
    /\ MainIdle

CallAllExecutables ==
    /\ executables = Pending
    /\ paths' = FlattenDirectories(directories)
    /\ executables' = Returned(AllExecutables(directories))
    /\ UNCHANGED <<directories, found, requested>>
    /\ UNCHANGED <<strVars, pathVars, versionVars>>
    /\ UNCHANGED mainVars

\* pub fn find_executable: the index is built, then searched.
CallFindExecutable ==
    /\ found = Pending
    /\ \E request \in IndexRequests,
          order \in IterationOrders(DOMAIN AllExecutables(directories)) :
           /\ requested' = request
           /\ found' = Returned(FindExecutableInHashmap(
                                    request, AllExecutables(directories), order))
    /\ paths' = FlattenDirectories(directories)
    /\ executables' = Returned(AllExecutables(directories))
    /\ UNCHANGED directories
    /\ UNCHANGED <<strVars, pathVars, versionVars>>
    /\ UNCHANGED mainVars

NextEnv == CallAllExecutables \/ CallFindExecutable

SpecEnv == InitEnv /\ [][NextEnv]_vars

\* C10: only regular files are candidates: every path of the index that
\* all_executables returns, and every path that find_executable returns, is
\* a regular file (or a symlink to one); an entry of another type with a
\* name of the form pythonX.Y is not indexed, is not chosen, and does not
\* take the place of a regular file of its version in a later directory.
C10_OnlyRegularFiles ==
    /\ executables.tag = "Returned" =>
           /\ \A version \in DOMAIN executables.value :
                  IsFile(directories, executables.value[version])
           /\ \A i \in 1..Len(paths) :
                  (/\ IsFile(directories, paths[i])
                   /\ ExactVersionFromPath(paths[i]).tag = "Ok") =>
                      LET version == ExactVersionFromPath(paths[i]).value IN
                      /\ version \in DOMAIN executables.value
                      /\ IsFile(directories, executables.value[version])
    /\ (found.tag = "Returned" /\ found.value # None) =>
           IsFile(directories, found.value.value)

----------------------------------------------------------------------------
(* The skip specification: all_executables_in_paths over sequences in      *)
(* which paths that from_path rejects, one for each kind of error, stand   *)
(* among paths that it accepts.                                            *)

\* A name that passes acceptable_file_name and has no '.'.
python363 == python \o <<"3", "6", "3">>
\* A name whose major component does not parse.
pythonX_6 == python \o <<"X", ".", "6">>

RejectedPaths ==
    {PathBuf(DirNames[1], None),
     PathBuf(DirNames[1], Some(NotUtf8)),
     PathBuf(DirNames[1], Some(Utf8(python3))),
     PathBuf(DirNames[1], Some(Utf8(python363))),
     PathBuf(DirNames[1], Some(Utf8(pythonX_6)))}

AcceptedPaths ==
    {PathBuf(DirNames[1], Some(Utf8(python3_6))),
     PathBuf(DirNames[2], Some(Utf8(python3_6))),
     PathBuf(DirNames[2], Some(Utf8(python3_7)))}

SkipPaths == RejectedPaths \cup AcceptedPaths

InitSkip ==
    /\ paths \in StringsOver(SkipPaths, 0, MaxPaths)
    /\ executables = Pending
    /\ found = Idle
    /\ requested = Idle
    /\ directories = <<>>
    /\ StrIdle /\ PathIdle /\ VersionIdle
    /\ MainIdle

NextSkip == CallAllExecutablesInPaths

SpecSkip == InitSkip /\ [][NextSkip]_vars

\* The kinds of error of from_path.
FromPathErrorKinds ==
    {"FileNameMissing", "FileNameToStrError", "PathFileNameError",
     "DotMissing", "ParseVersionComponentError"}

\* C11: building the index never fails and never stops at a bad entry: a
\* path for which from_path returns an error, of whatever kind, is skipped
\* and leaves the index as it was; every path after it is still processed,
\* so every path that from_path accepts has its version in the index; and
\* the keys of the index are exactly the versions that from_path extracts
\* from the paths of the sequence.
C11_BadPathsAreSkipped ==
    executables.tag = "Returned" =>
        LET map == executables.value
            carried == FromPathOfEach(paths)
            good == {i \in 1..Len(paths) : carried[i].tag = "Ok"}
            bad == {i \in 1..Len(paths) : carried[i].tag = "Err"}
            Without(S) ==
                LET kept == SelectSeq([i \in 1..Len(paths) |-> i],
                                      LAMBDA i : i \notin S)
                IN  [k \in 1..Len(kept) |-> paths[kept[k]]]
        IN  /\ good \cup bad = 1..Len(paths)
            /\ \A i \in bad : carried[i].error.kind \in FromPathErrorKinds
            /\ \A i \in good :
                   /\ carried[i].value \in DOMAIN map
                   /\ \E j \in good : /\ j <= i
                                      /\ map[carried[i].value] = paths[j]
            /\ DOMAIN map = {carried[i].value : i \in good}
            /\ map = AllExecutablesInPaths(Without(bad))

\* C11's case: a path with no file name, python3.6, a path whose major does
\* not parse, and python3.7: both versions are in the index.
C11_Witness ==
    /\ paths = <<PathBuf("dir1", None),
                 PathBuf("dir1", Some(Utf8(python3_6))),
                 PathBuf("dir1", Some(Utf8(pythonX_6))),
                 PathBuf("dir2", Some(Utf8(python3_7)))>>
    /\ ExactVersionFromPath(paths[1]) = Err(FileNameMissing)
    /\ ExactVersionFromPath(paths[3]).tag = "Err"
    /\ executables.tag = "Returned"
    /\ DOMAIN executables.value = {ExactVersion(3, 6), ExactVersion(3, 7)}
    /\ executables.value[ExactVersion(3, 7)]
           = PathBuf("dir2", Some(Utf8(python3_7)))

----------------------------------------------------------------------------
(* The launcher binary, main.rs.  main calls functions of the library that *)
(* lib.rs no longer has (parse_version_from_flag, check_default_env_var,   *)
(* check_major_env_var, path_entries, directory_contents,                  *)
(* filter_python_executables, Version::matches, choose_executable); they   *)
(* are modelled by what the specification and the comment at the head of   *)
(* main.rs say of them.                                                    *)

\* RequestedVersion::Loose: a major version alone, MajorOnly in lib.rs.
Loose(major) == MajorOnly(major)

\* parse_version_from_flag: the leading '-' is stripped and the rest is
\* given to the parser of version strings; an argument without the marker
\* is not a flag.
ParseVersionFromFlag(arg) ==
    IF StartsWith(arg, <<"-">>)
    THEN RequestedVersionFromStr(Tail(arg))
    ELSE Err([kind |-> "NotAFlag"])

PY_PYTHON == <<"P", "Y", "_", "P", "Y", "T", "H", "O", "N">>

\* RequestedVersion::env_var: the name of the variable of a request.
EnvVar(request) ==
    CASE request.tag = "Any" -> Some(PY_PYTHON)
      [] request.tag = "MajorOnly" ->
             Some(PY_PYTHON \o FormatComponent(request.major))
      [] request.tag = "Exact" -> None

\* The variable `name` read and parsed as a version, with no check that the
\* version fits the request it stands in for.
VersionFromEnvVar(env, name) ==
    IF name \in DOMAIN env
    THEN RequestedVersionFromStr(env[name])
    ELSE Err([kind |-> "NotPresent"])

\* check_default_env_var: PY_PYTHON
CheckDefaultEnvVar(env) == VersionFromEnvVar(env, EnvVar(Any).value)

\* check_major_env_var: PY_PYTHON<major>
CheckMajorEnvVar(env, major) ==
    VersionFromEnvVar(env, EnvVar(Loose(major)).value)

\* Version::matches: how a version found on PATH matches the request.
Matches(version, request) ==
    CASE request.tag = "Any" -> "Loosely"
      [] request.tag = "MajorOnly" ->
             IF version.major = request.major THEN "Loosely" ELSE "NotAtAll"
      [] request.tag = "Exact" ->
             IF /\ version.major = request.major
                /\ version.minor = request.minor
             THEN "Exactly" ELSE "NotAtAll"

\* path_entries: the directories of PATH, in the order of PATH.
PathEntries(dirs) == dirs

\* directory_contents: the paths of the entries of a directory; a directory
\* that cannot be read has none.
DirectoryContents(dir) ==
    IF dir.read_dir.tag = "Ok"
    THEN EntryPaths(dir.name, dir.read_dir.value)
    ELSE <<>>

\* filter_python_executables: the (version, path) pairs of the paths whose
\* name is pythonX.Y.
RECURSIVE FilterPythonExecutables(_)
FilterPythonExecutables(contents) ==
    IF contents = <<>> THEN <<>>
    ELSE LET version == ExactVersionFromPath(Head(contents)) IN
         IF version.tag = "Ok"
         THEN <<[version |-> version.value, path |-> Head(contents)]>>
                  \o FilterPythonExecutables(Tail(contents))
         ELSE FilterPythonExecutables(Tail(contents))

\* choose_executable: the path of the greatest version found, if any.
ChooseExecutable(versions) ==
    IF DOMAIN versions = {} THEN None
    ELSE Some(versions[CHOOSE best \in DOMAIN versions :
                           \A other \in DOMAIN versions :
                               ExactVersionCmp(best, other) # "Less"])

\* A faulty ArgsAfterFlag: the first argument is removed whatever it is.
ArgsAfterFlagAlways(all_args) ==
    IF Len(all_args) >= 1 THEN Tail(all_args) ELSE all_args

\* main, lines 38-43: the arguments once the version flag, if the first
\* argument is one, is removed.
ArgsAfterFlag(all_args) ==
    IF Len(all_args) >= 1
    THEN IF ParseVersionFromFlag(all_args[1]).tag = "Ok"
         THEN Tail(all_args)
         ELSE all_args
    ELSE all_args

\* main, lines 36-43: the version the command line asks for.
RequestedFromFlag(all_args) ==
    IF Len(all_args) >= 1
    THEN LET version == ParseVersionFromFlag(all_args[1]) IN
         IF version.tag = "Ok" THEN version.value ELSE Any
    ELSE Any

\* main, lines 45-55: one match on the request; the variable it names, if
\* it parses, takes the place of the request.
RequestedFromEnvVar(request, env) ==
    CASE request.tag = "Any" ->
             LET found_version == CheckDefaultEnvVar(env) IN
             IF found_version.tag = "Ok" THEN found_version.value
             ELSE request
      [] request.tag = "MajorOnly" ->
             LET found_version == CheckMajorEnvVar(env, request.major) IN
             IF found_version.tag = "Ok" THEN found_version.value
             ELSE request
      [] request.tag = "Exact" -> request

\* HashMap::insert: the value of a key that is present is replaced.
HashMapInsert(map, key, value) ==
    [k \in DOMAIN map \cup {key} |-> IF k = key THEN value ELSE map[k]]

\* main, lines 60-75: the inner loop over the executables of one directory;
\* the break of the Exactly arm ends this loop.
RECURSIVE ScanExecutables(_, _, _, _)
ScanExecutables(versions, pairs, request, dirs) ==
    IF pairs = <<>> THEN versions
    ELSE LET version == Head(pairs).version
             file == Head(pairs).path
             match == Matches(version, request)
         IN  CASE match = "NotAtAll" ->
                      ScanExecutables(versions, Tail(pairs), request, dirs)
               [] match = "Loosely" ->
                      ScanExecutables(
                          IF /\ version \notin DOMAIN versions
                             /\ IsFile(dirs, file)
                          THEN HashMapInsert(versions, version, file)
                          ELSE versions,
                          Tail(pairs), request, dirs)
               [] match = "Exactly" ->
                      IF IsFile(dirs, file)
                      THEN HashMapInsert(versions, version, file)
                      ELSE ScanExecutables(versions, Tail(pairs),
                                           request, dirs)

\* main, lines 58-76, one turn of the outer loop: the directory is listed
\* and its executables are scanned.
ScanPathEntry(versions, dir, request, dirs) ==
    ScanExecutables(versions,
                    FilterPythonExecutables(DirectoryContents(dir)),
                    request, dirs)

\* main, lines 57-76: the whole scan from the entry `from` of PATH on.
RECURSIVE ScanFrom(_, _, _, _)
ScanFrom(versions, from, request, dirs) ==
    IF from > Len(PathEntries(dirs)) THEN versions
    ELSE ScanFrom(ScanPathEntry(versions, PathEntries(dirs)[from],
                                request, dirs),
                  from + 1, request, dirs)

\* fn run, lines 87-91: the executable and then the arguments.
RunArgv(executable, rest) == <<executable>> \o rest

----------------------------------------------------------------------------
(* The launcher specification: one run of main, statement by statement,    *)
(* for a command line, an environment and a file system behind PATH.       *)

MaxArgs == 2        \* most arguments after the path of the launcher

py == <<"p", "y">>

\* The arguments: version flags, a flag that is no version, a version
\* without the marker, and the marker alone.
ArgStrings ==
    {<<"-", "3">>, <<"-", "3", ".", "6">>, <<"-", "h">>, <<"3">>, <<"-">>}

\* What PY_PYTHON and PY_PYTHON3 may hold when they are set.
DefaultValues == {<<"3">>, <<"3", ".", "6">>, <<"h">>}
MajorValues == {<<"3", ".", "6">>}

Environments ==
    {env \in UNION {[names -> DefaultValues \cup MajorValues] :
                        names \in SUBSET {PY_PYTHON, PY_PYTHON \o <<"3">>}} :
         /\ PY_PYTHON \in DOMAIN env => env[PY_PYTHON] \in DefaultValues
         /\ PY_PYTHON \o <<"3">> \in DOMAIN env =>
                env[PY_PYTHON \o <<"3">>] \in MajorValues}

\* The entries of a directory of PATH: python3.6 and python3.7, each a
\* regular file or a directory.
MainDirEntries ==
    {Ok([file_name |-> name, file_type |-> type]) :
         name \in {python3_6, python3_7}, type \in {"file", "dir"}}

MainListings ==
    {entries \in StringsOver(MainDirEntries, 0, MaxEntries) :
         \A i, j \in 1..Len(entries) :
             i # j => entries[i].value.file_name # entries[j].value.file_name}

InitMain ==
    /\ env_args \in {<<py>> \o rest : rest \in StringsOver(ArgStrings, 0, MaxArgs)}
    /\ environment \in Environments
    /\ directories \in
           {[i \in 1..Len(DirNames) |->
                 [name |-> DirNames[i], read_dir |-> Ok(listing[i])]] :
                listing \in [1..Len(DirNames) -> MainListings]}
    /\ args = <<>>
    /\ requested_version = Pending
    /\ found_versions = Pending
    /\ scanned = 0
    /\ chosen_path = Pending
    /\ argv = <<>>
    /\ pc = "flag"
    /\ paths = <<>> /\ executables = Idle /\ found = Idle /\ requested = Idle
    /\ StrIdle /\ PathIdle /\ VersionIdle

\* main, lines 34-43: the path of the launcher is stripped and the first
\* argument is taken as the version flag if it parses as one.
MainParseFlag ==
    /\ pc = "flag"
    /\ requested_version' = RequestedFromFlag(Tail(env_args))
    /\ args' = ArgsAfterFlag(Tail(env_args))
    /\ pc' = "env"
    /\ UNCHANGED <<env_args, environment, found_versions, scanned,
                   chosen_path, argv>>
    /\ UNCHANGED <<strVars, pathVars, versionVars, indexVars, requested>>

\* main, lines 45-57: the variable of the request is looked up, and the
\* map of the found versions is made.
MainCheckEnvVar ==
    /\ pc = "env"
    /\ requested_version' = RequestedFromEnvVar(requested_version, environment)
    /\ found_versions' = EmptyMap
    /\ pc' = "scan"
    /\ UNCHANGED <<env_args, environment, args, scanned, chosen_path, argv>>
    /\ UNCHANGED <<strVars, pathVars, versionVars, indexVars, requested>>

\* main, lines 58-76: one turn of the loop over the entries of PATH.
MainScanPathEntry ==
    /\ pc = "scan"
    /\ scanned < Len(PathEntries(directories))
    /\ found_versions' =
           ScanPathEntry(found_versions, PathEntries(directories)[scanned + 1],
                         requested_version, directories)
    /\ scanned' = scanned + 1
    /\ UNCHANGED <<env_args, environment, args, requested_version,
                   chosen_path, argv, pc>>
    /\ UNCHANGED <<strVars, pathVars, versionVars, indexVars, requested>>

\* main, line 78: the executable is chosen; unwrap panics when there is none.
MainChooseExecutable ==
    /\ pc = "scan"
    /\ scanned = Len(PathEntries(directories))
    /\ LET chosen == ChooseExecutable(found_versions) IN
       IF chosen = None
       THEN pc' = "panicked" /\ UNCHANGED chosen_path
       ELSE pc' = "run" /\ chosen_path' = chosen.value
    /\ UNCHANGED <<env_args, environment, args, requested_version,
                   found_versions, scanned, argv>>
    /\ UNCHANGED <<strVars, pathVars, versionVars, indexVars, requested>>

\* main, lines 79-82, and run: execv of the chosen executable with the
\* arguments; execv does not return, or returns an error that is printed.
MainRun ==
    /\ pc = "run"
    /\ argv' = RunArgv(chosen_path, args)
    /\ pc' \in {"execv", "exit"}
    /\ UNCHANGED <<env_args, environment, args, requested_version,
                   found_versions, scanned, chosen_path>>
    /\ UNCHANGED <<strVars, pathVars, versionVars, indexVars, requested>>

NextMain ==
    \/ MainParseFlag
    \/ MainCheckEnvVar
    \/ MainScanPathEntry
    \/ MainChooseExecutable
    \/ MainRun

SpecMain == InitMain /\ [][NextMain]_vars

\* The first argument is a version flag: it has the marker, and what
\* follows the marker parses as a version.
IsVersionFlag(all_args) ==
    /\ Len(all_args) >= 1
    /\ StartsWith(all_args[1], <<"-">>)
    /\ RequestedVersionFromStr(Tail(all_args[1])).tag = "Ok"

\* C12: in main the first argument is consumed as a version flag exactly
\* when stripping its marker and parsing it succeeds: then the requested
\* version is the parsed one and the argument is removed; when it fails, or
\* there is no argument, the requested version stays Any, no error is
\* raised (the only panic of main is the unwrap of an empty choice), and
\* the arguments handed on to the chosen executable are unchanged.
C12_FlagConsumedIffParsed ==
    LET all_args == Tail(env_args)
        passed_on == IF IsVersionFlag(all_args) THEN Tail(all_args)
                     ELSE all_args
    IN  /\ pc = "env" =>
               /\ args = passed_on
               /\ requested_version =
                      IF IsVersionFlag(all_args)
                      THEN RequestedVersionFromStr(Tail(all_args[1])).value
                      ELSE Any
        /\ pc \in {"scan", "run", "panicked", "execv", "exit"} =>
               args = passed_on
        /\ pc = "panicked" => DOMAIN found_versions = {}
        /\ pc \in {"execv", "exit"} => argv = <<chosen_path>> \o passed_on

\* C12's case: "py -h -3": -h is no version, so nothing is consumed, the
\* request stays Any, and both arguments reach the executable.
C12_Witness ==
    /\ env_args = <<py, <<"-", "h">>, <<"-", "3">>>>
    /\ DOMAIN environment = {}
    /\ pc = "execv"
    /\ requested_version = Any
    /\ argv = <<chosen_path, <<"-", "h">>, <<"-", "3">>>>

\* The directories of PATH, by their place in PATH, that hold a regular
\* file whose name carries the version.
HoldersOf(version) ==
    {i \in 1..Len(directories) :
         /\ directories[i].read_dir.tag = "Ok"
         /\ \E k \in 1..Len(directories[i].read_dir.value) :
                LET entry == directories[i].read_dir.value[k] IN
                /\ entry.tag = "Ok"
                /\ entry.value.file_type = "file"
                /\ ExactVersionFromStr(
                       SubSeq(entry.value.file_name, Len(python) + 1,
                              Len(entry.value.file_name))) = Ok(version)}

Earliest(holders) == CHOOSE i \in holders : \A j \in holders : i <= j

\* Every version that matches the request and is a regular file in several
\* directories is recorded with its path in the earliest of them.
EarliestIsRecorded ==
    \A version \in {ExactVersion(3, 6), ExactVersion(3, 7)} :
        (/\ Cardinality(HoldersOf(version)) >= 2
         /\ Supports(version, requested_version)) =>
            /\ version \in DOMAIN found_versions
            /\ found_versions[version].dir =
                   directories[Earliest(HoldersOf(version))].name

\* C13: in the scan loop of main, for every kind of request and every
\* content of the directories of PATH, when the same matching version is a
\* regular file in several directories, the path recorded for it in
\* found_versions after the whole scan is the one from the earliest of
\* those directories; and no turn of the loop replaces the path that an
\* earlier directory recorded.
C13_EarliestDirectoryWins ==
    [][/\ (pc = "scan" /\ pc' = "scan") =>
              \A version \in DOMAIN found_versions :
                  /\ version \in DOMAIN found_versions'
                  /\ found_versions'[version] = found_versions[version]
       /\ (pc' = "scan" /\ scanned' = Len(directories')) =>
              EarliestIsRecorded']_vars

\* The same for the requests that match loosely, Any and Loose, alone.
LooseRequestsKeepEarliest ==
    [][requested_version'.tag \in {"Any", "MajorOnly"} =>
           /\ (pc = "scan" /\ pc' = "scan") =>
                  \A version \in DOMAIN found_versions :
                      /\ version \in DOMAIN found_versions'
                      /\ found_versions'[version] = found_versions[version]
           /\ (pc' = "scan" /\ scanned' = Len(directories')) =>
                  EarliestIsRecorded']_vars

\* The run of main once the environment variable has been looked up.
AfterEnvVar == pc \in {"scan", "run", "panicked", "execv", "exit"}

\* What main requests and chooses for a command line, by the same steps.
RequestedBy(all_args) ==
    RequestedFromEnvVar(RequestedFromFlag(all_args), environment)
ChosenBy(all_args) ==
    ChooseExecutable(ScanFrom(EmptyMap, 1, RequestedBy(all_args),
                              directories))

\* C14: run with no version flag and with PY_PYTHON holding a major-only
\* version m, the launcher runs as `py -m`: the requested version and the
\* chosen executable are those of the run with the explicit flag -m in the
\* same environment, PY_PYTHON<m> included; with PY_PYTHON holding
\* major.minor it runs as with the explicit exact flag; and an Exact
\* request is never overridden by a default variable.
C14_DefaultRunsAsFlag ==
    LET all_args == Tail(env_args) IN
    /\ (/\ AfterEnvVar
        /\ ~IsVersionFlag(all_args)
        /\ PY_PYTHON \in DOMAIN environment) =>
           LET default == RequestedVersionFromStr(environment[PY_PYTHON])
               with_flag == <<<<"-">> \o environment[PY_PYTHON]>> \o all_args
           IN  (default.tag = "Ok" /\ default.value.tag # "Any") =>
                   /\ requested_version = RequestedBy(with_flag)
                   /\ pc \in {"run", "execv", "exit"} =>
                          Some(chosen_path) = ChosenBy(with_flag)
                   /\ pc = "panicked" => ChosenBy(with_flag) = None
                   /\ default.value.tag = "Exact" =>
                          requested_version = default.value
    /\ (AfterEnvVar /\ IsVersionFlag(all_args)) =>
           LET flag == RequestedVersionFromStr(Tail(all_args[1])).value IN
           flag.tag = "Exact" => requested_version = flag

\* The same when the variable of the major version is not set.
DefaultRunsAsFlagWithoutMajorVar ==
    PY_PYTHON \o <<"3">> \notin DOMAIN environment => C14_DefaultRunsAsFlag

====
